---- MODULE Spec2Model ----
(***************************************************************************)
(* State-machine model of src/main.py (class ChatBot): the per-persona     *)
(* conversation log, its reconciliation into the in-memory history, the    *)
(* persona switch, the persisted selection and the command loop.           *)
(*                                                                         *)
(* Text is a sequence of tokens.  A token is one character (" ", "\n",     *)
(* "a") or one of the fixed strings the code writes and matches as a       *)
(* whole: USER_MARK, AI_MARK and the timestamp line TIME_LINE.             *)
(*                                                                         *)
(* A file is a record [st, data]: st = "absent" (os.path.exists is false), *)
(* "unreadable" (open/read raises) or "ok" (data is the content).  A write *)
(* that raises leaves the file as it was.                                  *)
(***************************************************************************)
EXTENDS Integers, Sequences, FiniteSets, TLC

(* ------------------------------ bounds --------------------------------- *)
\* get_response calls in one behaviour
MaxCalls == 1

(* ------------------------------ tokens --------------------------------- *)
USER_MARK == "U"
AI_MARK == "A"
TIME_LINE == "T"
WS == {" ", "\n"}

(* ------------------------- persona registry ---------------------------- *)
SYSTEM_PROMPTS == [p \in {"p1", "p2"} |-> <<"instruction", p>>]
DEFAULT_PROMPT == "p1"
PromptNames == DOMAIN SYSTEM_PROMPTS

(* ---------------------------- str methods ------------------------------ *)
RECURSIVE lstrip(_)
lstrip(s) == IF s # <<>> /\ Head(s) \in WS THEN lstrip(Tail(s)) ELSE s

RECURSIVE rstrip(_)
rstrip(s) ==
    IF s # <<>> /\ s[Len(s)] \in WS THEN rstrip(SubSeq(s, 1, Len(s) - 1)) ELSE s

strip(s) == rstrip(lstrip(s))

\* s.split('\n'): always at least one line
RECURSIVE split(_)
split(s) ==
    IF s = <<>> THEN << <<>> >>
    ELSE LET rest == split(Tail(s))
         IN  IF Head(s) = "\n" THEN << <<>> >> \o rest
             ELSE << <<Head(s)>> \o Head(rest) >> \o Tail(rest)

startswith(s, m) == s # <<>> /\ Head(s) = m

\* s.replace(m, ''): every occurrence of m goes, wherever it is
replace(s, m) == SelectSeq(s, LAMBDA c : c # m)

(* ------------------------------- files --------------------------------- *)
Absent == [st |-> "absent", data |-> <<>>]
Unreadable == [st |-> "unreadable", data |-> <<>>]
File(d) == [st |-> "ok", data |-> d]

\* an append that opens with 'w': what was there goes
append_file_truncating(f, d) ==
    IF f.st = "unreadable" THEN f
    ELSE File(d)

\* open(path, 'a') + write: creates the file when absent
append_file(f, d) ==
    IF f.st = "unreadable" THEN f
    ELSE File(f.data \o d)

\* open(path, 'w') + write
write_file(f, d) == File(d)

LogPath(name) == <<"chat_", name, ".md">>
LogPaths == {LogPath(n) : n \in PromptNames}

(* ------------------------------ turns ---------------------------------- *)
Content(role, text) == [role |-> role, text |-> text]

add_message(hist, role, text) == Append(hist, Content(role, text))

log_entry(role, message) ==
    LET role_display == IF role = "user" THEN USER_MARK ELSE AI_MARK
    IN  <<"\n", role_display, " ">> \o message \o <<"\n", TIME_LINE, "\n">>

\* a scan that adds a turn for every marker line, text or no text
RECURSIVE load_lines_keeps_empty(_, _)
load_lines_keeps_empty(hist, lines) ==
    IF lines = <<>> THEN hist
    ELSE LET line == Head(lines)
             next ==
                 IF startswith(line, USER_MARK)
                 THEN add_message(hist, "user", strip(replace(line, USER_MARK)))
                 ELSE IF startswith(line, AI_MARK)
                 THEN add_message(hist, "model", strip(replace(line, AI_MARK)))
                 ELSE hist
         IN  load_lines_keeps_empty(next, Tail(lines))

RECURSIVE load_lines(_, _)
load_lines(hist, lines) ==
    IF lines = <<>> THEN hist
    ELSE LET line == Head(lines)
             next ==
                 IF startswith(line, USER_MARK)
                 THEN LET text == strip(replace(line, USER_MARK))
                      IN  IF text # <<>> THEN add_message(hist, "user", text)
                          ELSE hist
                 ELSE IF startswith(line, AI_MARK)
                 THEN LET text == strip(replace(line, AI_MARK))
                      IN  IF text # <<>> THEN add_message(hist, "model", text)
                          ELSE hist
                 ELSE hist
         IN  load_lines(next, Tail(lines))

\* _load_chat_history: appends to hist what the file's lines yield
load_chat_history(hist, f) ==
    IF f.st = "ok" THEN load_lines(hist, split(f.data)) ELSE hist

\* _save_to_log on file f; ok = FALSE when the write raises
save_to_log(f, role, message, ok) ==
    IF ok THEN append_file(f, log_entry(role, message)) ELSE f

\* a load that never looks at the file
load_last_prompt_default(f) == DEFAULT_PROMPT

\* _load_last_prompt
load_last_prompt(f) ==
    IF f.st = "ok"
    THEN LET last_prompt == strip(f.data)
         IN  IF Len(last_prompt) = 1 /\ last_prompt[1] \in PromptNames
             THEN last_prompt[1]
             ELSE DEFAULT_PROMPT
    ELSE DEFAULT_PROMPT

\* a save that writes the default name, whatever persona is active
save_last_prompt_default(f, name, ok) ==
    IF ok THEN write_file(f, <<DEFAULT_PROMPT>>) ELSE f

\* _save_last_prompt on file f
save_last_prompt(f, name, ok) ==
    IF ok THEN write_file(f, <<name>>) ELSE f

GenerateContentConfig(name) == [system_instruction |-> SYSTEM_PROMPTS[name]]

(* --------------------- get_response: the except arm -------------------- *)
\* str(e) is a sequence of words; lower() maps a word to its lower case
lower_word(w) ==
    CASE w = "API_KEY" -> "api_key"
      [] w = "QUOTA" -> "quota"
      [] w = "Rate" -> "rate"
      [] OTHER -> w

lower(s) == [i \in 1..Len(s) |-> lower_word(s[i])]

contains(s, w) == \E i \in 1..Len(s) : s[i] = w

ERR_AUTH == "AuthError"
ERR_QUOTA == "QuotaExceeded"
ERR_RATE == "RateLimited"
ERR_REQUEST == "TransportError"

\* the chain in the order quota, rate, API_KEY
error_msg_quota_first(e) ==
    IF contains(lower(e), "quota") THEN <<ERR_QUOTA>>
    ELSE IF contains(lower(e), "rate") THEN <<ERR_RATE>>
    ELSE IF contains(e, "API_KEY") THEN <<ERR_AUTH>>
    ELSE <<ERR_REQUEST>> \o e

\* the if/elif chain of the except arm: error_msg for the description e
error_msg(e) ==
    IF contains(e, "API_KEY") THEN <<ERR_AUTH>>
    ELSE IF contains(lower(e), "quota") THEN <<ERR_QUOTA>>
    ELSE IF contains(lower(e), "rate") THEN <<ERR_RATE>>
    ELSE <<ERR_REQUEST>> \o e

(* ------------------------------- state --------------------------------- *)
VARIABLES
    current_prompt,        \* self.current_prompt
    chat_log_file,         \* self.chat_log_file
    config,                \* self.config
    conversation_history,  \* self.conversation_history
    last_prompt,           \* the file '.last_prompt'
    logs,                  \* the files chat_<name>.md
    pc,                    \* "input": in input(); "stream": in the response loop; "exited"
    request,               \* contents handed to generate_content_stream
    ret,                   \* value returned by the last get_response
    exc,                   \* str(e) of the exception get_response caught
    out,                   \* what the last command's method reported
    pre_clear,             \* the list clear_history dropped, while 'clear' is the last command
    hydrated,              \* turns the last _load_chat_history produced
    appended,              \* turns get_response added since then
    dropped,               \* how many of those turns clear_history has dropped
    ncalls                 \* get_response calls so far

vars == <<current_prompt, chat_log_file, config, conversation_history,
          last_prompt, logs, pc, request, ret, exc,
          out, pre_clear, hydrated, appended, dropped, ncalls>>

bot == <<current_prompt, chat_log_file, config, conversation_history>>
files == <<last_prompt, logs>>
ghost == <<hydrated, appended, dropped>>

\* the report of show_welcome, switch_prompt, list_prompts or clear_history: what it says,
\* the persona name in it, the names it lists; NoReport when the last command
\* called none of them
Report(msg, name, listed) == [msg |-> msg, name |-> name, listed |-> listed]
NoReport == Report("", "", {})

(* ------------------------------ inputs --------------------------------- *)
\* a log left by an earlier run and edited by hand: a timestamp line, a
\* blank line, a user marker with no text, a line with the user marker in
\* its middle, an assistant record whose text holds the assistant marker
HandEdited ==
    File(<<TIME_LINE, "\n", "\n", USER_MARK, " ", "\n",
           "a", USER_MARK, "a", "\n",
           AI_MARK, " ", "a", AI_MARK, "a", "\n">>)

\* the files a start can find: [sel, p1, p2]
InitialFiles ==
    { [sel |-> Absent, p1 |-> Absent, p2 |-> Absent],
      [sel |-> File(<<"p2", "\n">>), p1 |-> HandEdited, p2 |-> Absent],
      [sel |-> Unreadable, p1 |-> Unreadable, p2 |-> HandEdited],
      [sel |-> File(<<"zz">>), p1 |-> HandEdited, p2 |-> HandEdited] }

\* what input() returns
Lines == {<<" ", "a", " ">>, <<" ">>}

\* names typed after 'prompt:'
TypedNames == PromptNames \cup {"zz"}

\* one streamed fragment: a reasoning part (no chunk.text) or answer text
Thought == [thought |-> TRUE, text |-> <<>>]
Answer(t) == [thought |-> FALSE, text |-> t]

\* the streams the service answers with: nothing, reasoning only, reasoning
\* then a one-line answer, an answer of two lines in two fragments
Streams ==
    { <<>>,
      <<Thought>>,
      <<Thought, Answer(<<"a">>)>>,
      <<Answer(<<"a">>), Answer(<<"\n", "a">>)>> }

\* descriptions of the failures the service raises
FailDescs == {<<"x">>, <<"API_KEY", "quota">>}

(* --------------------------- construction ------------------------------ *)
\* ChatBot.__init__ followed by show_welcome, on the files found at start
Init ==
    /\ \E f \in InitialFiles :
           /\ last_prompt = f.sel
           /\ logs = [q \in LogPaths |-> IF q = LogPath("p1") THEN f.p1 ELSE f.p2]
    /\ current_prompt = load_last_prompt(last_prompt)
    /\ chat_log_file = LogPath(current_prompt)
    /\ conversation_history = load_chat_history(<<>>, logs[chat_log_file])
    /\ config = GenerateContentConfig(current_prompt)
    /\ pc = "input"
    /\ request = <<>>
    /\ ret = <<>>
    /\ exc = <<>>
    /\ out = Report("welcome", current_prompt, {})
    /\ pre_clear = <<>>
    /\ hydrated = load_chat_history(<<>>, logs[chat_log_file])
    /\ appended = <<>>
    /\ dropped = 0
    /\ ncalls = 0

\* no get_response result is pending and 'clear' is not the last command
Idle == ret' = <<>> /\ exc' = <<>> /\ pre_clear' = <<>> /\ UNCHANGED request

\* main() run again after the process has ended: a new ChatBot on the files
\* the ended one left
main ==
    /\ pc = "exited"
    /\ current_prompt' = load_last_prompt(last_prompt)
    /\ chat_log_file' = LogPath(current_prompt')
    /\ conversation_history' = load_chat_history(<<>>, logs[chat_log_file'])
    /\ config' = GenerateContentConfig(current_prompt')
    /\ pc' = "input"
    /\ out' = Report("welcome", current_prompt', {})
    /\ hydrated' = load_chat_history(<<>>, logs[chat_log_file'])
    /\ appended' = <<>>
    /\ dropped' = 0
    /\ ret' = <<>>
    /\ exc' = <<>>
    /\ pre_clear' = <<>>
    /\ request' = <<>>
    /\ UNCHANGED <<files, ncalls>>

(* ------------------------------ methods -------------------------------- *)
\* list_prompts: prints every key of the registry
list_prompts == DOMAIN SYSTEM_PROMPTS

\* an accepted arm that keeps the config it has
switch_accept_keeps_config(prompt_name, ok, start) ==
    /\ current_prompt' = prompt_name
    /\ chat_log_file' = LogPath(prompt_name)
    /\ last_prompt' = save_last_prompt(last_prompt, prompt_name, ok)
    /\ conversation_history' = load_chat_history(start, logs[LogPath(prompt_name)])
    /\ out' = Report("switched", prompt_name, {})
    /\ hydrated' = load_chat_history(<<>>, logs[LogPath(prompt_name)])
    /\ appended' = <<>>
    /\ dropped' = 0
    /\ UNCHANGED <<logs, config>>

\* an accepted arm that keeps the log path it has
switch_accept_keeps_path(prompt_name, ok, start) ==
    /\ current_prompt' = prompt_name
    /\ last_prompt' = save_last_prompt(last_prompt, prompt_name, ok)
    /\ config' = GenerateContentConfig(prompt_name)
    /\ conversation_history' = load_chat_history(start, logs[chat_log_file])
    /\ out' = Report("switched", prompt_name, {})
    /\ hydrated' = load_chat_history(<<>>, logs[chat_log_file])
    /\ appended' = <<>>
    /\ dropped' = 0
    /\ UNCHANGED <<logs, chat_log_file>>

\* switch_prompt's accepted arm; start is the list _load_chat_history adds to
switch_accept(prompt_name, ok, start) ==
    /\ current_prompt' = prompt_name
    /\ chat_log_file' = LogPath(prompt_name)
    /\ last_prompt' = save_last_prompt(last_prompt, prompt_name, ok)
    /\ config' = GenerateContentConfig(prompt_name)
    /\ conversation_history' = load_chat_history(start, logs[LogPath(prompt_name)])
    /\ out' = Report("switched", prompt_name, {})
    /\ hydrated' = load_chat_history(<<>>, logs[LogPath(prompt_name)])
    /\ appended' = <<>>
    /\ dropped' = 0
    /\ UNCHANGED logs

\* switch_prompt's else arm; history is the list it leaves in memory
switch_reject(prompt_name, history) ==
    /\ out' = Report("rejected", prompt_name, list_prompts)
    /\ conversation_history' = history
    /\ UNCHANGED <<current_prompt, chat_log_file, config, files, ghost>>

\* a switch_prompt that empties the list before it looks the name up
switch_prompt_clears_first(prompt_name, ok) ==
    IF prompt_name \in DOMAIN SYSTEM_PROMPTS
    THEN switch_accept(prompt_name, ok, <<>>)
    ELSE switch_reject(prompt_name, <<>>)

\* a switch_prompt that loads the log on top of the list it has
switch_prompt_accumulates(prompt_name, ok) ==
    IF prompt_name \in DOMAIN SYSTEM_PROMPTS
    THEN switch_accept(prompt_name, ok, conversation_history)
    ELSE switch_reject(prompt_name, conversation_history)

\* switch_prompt(prompt_name); ok = FALSE when _save_last_prompt's write raises
switch_prompt(prompt_name, ok) ==
    IF prompt_name \in DOMAIN SYSTEM_PROMPTS
    THEN switch_accept(prompt_name, ok, <<>>)
    ELSE switch_reject(prompt_name, conversation_history)

\* a clear_history that also goes back to the default persona
clear_history_resets ==
    /\ conversation_history' = <<>>
    /\ current_prompt' = DEFAULT_PROMPT
    /\ out' = Report("cleared", "", {})
    /\ dropped' = Len(hydrated) + Len(appended)
    /\ UNCHANGED <<chat_log_file, config, files, hydrated, appended>>

\* a clear_history that leaves the list as it is
clear_history_keeps ==
    /\ out' = Report("cleared", "", {})
    /\ dropped' = Len(hydrated) + Len(appended)
    /\ UNCHANGED <<bot, files, hydrated, appended>>

\* a clear_history that also empties the active log
clear_history_truncates ==
    /\ conversation_history' = <<>>
    /\ logs' = [logs EXCEPT ![chat_log_file] = File(<<>>)]
    /\ out' = Report("cleared", "", {})
    /\ dropped' = Len(hydrated) + Len(appended)
    /\ UNCHANGED <<current_prompt, chat_log_file, config, last_prompt,
                   hydrated, appended>>

\* clear_history
clear_history ==
    /\ conversation_history' = <<>>
    /\ out' = Report("cleared", "", {})
    /\ dropped' = Len(hydrated) + Len(appended)
    /\ UNCHANGED <<current_prompt, chat_log_file, config, files, hydrated,
                   appended>>

(* --------------------------- the command loop -------------------------- *)
\* 'quit', 'exit', 'bye'
run_quit ==
    /\ pc = "input"
    /\ \E ok \in BOOLEAN :
           last_prompt' = save_last_prompt(last_prompt, current_prompt, ok)
    /\ pc' = "exited"
    /\ out' = NoReport
    /\ Idle
    /\ UNCHANGED <<bot, logs, ghost, ncalls>>

\* 'clear'
run_clear ==
    /\ pc = "input"
    /\ clear_history
    /\ pre_clear' = conversation_history
    /\ ret' = <<>>
    /\ exc' = <<>>
    /\ UNCHANGED <<pc, request, ncalls>>

\* 'prompt:<name>'
run_prompt ==
    /\ pc = "input"
    /\ \E prompt_name \in TypedNames, ok \in BOOLEAN :
           switch_prompt(prompt_name, ok)
    /\ Idle
    /\ UNCHANGED <<pc, ncalls>>

\* 'prompt:list', and 'prompt:' with no name
run_prompt_list ==
    /\ pc = "input"
    /\ out' = Report("list", "", list_prompts)
    /\ Idle
    /\ UNCHANGED <<bot, files, ghost, pc, ncalls>>

\* ctrl-C or end of input while in input()
run_interrupted ==
    /\ pc = "input"
    /\ \E ok \in BOOLEAN :
           last_prompt' = save_last_prompt(last_prompt, current_prompt, ok)
    /\ pc' = "exited"
    /\ out' = NoReport
    /\ Idle
    /\ UNCHANGED <<bot, logs, ghost, ncalls>>

(* ----------------------------- get_response ---------------------------- *)
\* a get_response that keeps the user's turn only when its record was written
get_response_drops_unlogged(line, ok) ==
    LET user_input == strip(line)
    IN  IF user_input = <<>>
        THEN /\ out' = NoReport
             /\ Idle
             /\ UNCHANGED <<bot, files, ghost, pc, ncalls>>
        ELSE /\ ncalls < MaxCalls
             /\ ncalls' = ncalls + 1
             /\ conversation_history' =
                    IF ok THEN add_message(conversation_history, "user", user_input)
                    ELSE conversation_history
             /\ logs' = [logs EXCEPT ![chat_log_file] =
                             save_to_log(@, "user", user_input, ok)]
             /\ appended' = add_message(appended, "user", user_input)
             /\ request' = conversation_history'
             /\ pc' = "stream"
             /\ ret' = <<>>
             /\ exc' = <<>>
             /\ pre_clear' = <<>>
             /\ out' = NoReport
             /\ UNCHANGED <<current_prompt, chat_log_file, config,
                            last_prompt, hydrated, dropped>>

\* a get_response that sends every turn loaded and appended, cleared or not
get_response_sends_all(line, ok) ==
    LET user_input == strip(line)
    IN  IF user_input = <<>>
        THEN /\ out' = NoReport
             /\ Idle
             /\ UNCHANGED <<bot, files, ghost, pc, ncalls>>
        ELSE /\ ncalls < MaxCalls
             /\ ncalls' = ncalls + 1
             /\ conversation_history' =
                    add_message(conversation_history, "user", user_input)
             /\ logs' = [logs EXCEPT ![chat_log_file] =
                             save_to_log(@, "user", user_input, ok)]
             /\ appended' = add_message(appended, "user", user_input)
             /\ request' = hydrated \o appended'
             /\ pc' = "stream"
             /\ ret' = <<>>
             /\ exc' = <<>>
             /\ pre_clear' = <<>>
             /\ out' = NoReport
             /\ UNCHANGED <<current_prompt, chat_log_file, config,
                            last_prompt, hydrated, dropped>>

\* any other line: empty after strip() is refused, else get_response runs up
\* to the request
get_response(line, ok) ==
    LET user_input == strip(line)
    IN  IF user_input = <<>>
        THEN /\ out' = NoReport
             /\ Idle
             /\ UNCHANGED <<bot, files, ghost, pc, ncalls>>
        ELSE /\ ncalls < MaxCalls
             /\ ncalls' = ncalls + 1
             /\ conversation_history' =
                    add_message(conversation_history, "user", user_input)
             /\ logs' = [logs EXCEPT ![chat_log_file] =
                             save_to_log(@, "user", user_input, ok)]
             /\ appended' = add_message(appended, "user", user_input)
             /\ request' = conversation_history'
             /\ pc' = "stream"
             /\ ret' = <<>>
             /\ exc' = <<>>
             /\ pre_clear' = <<>>
             /\ out' = NoReport
             /\ UNCHANGED <<current_prompt, chat_log_file, config,
                            last_prompt, hydrated, dropped>>

run_text ==
    /\ pc = "input"
    /\ \E line \in Lines, ok \in BOOLEAN : get_response(line, ok)

\* the loop over the stream's fragments: response_text after them
RECURSIVE consume(_, _)
consume(response_text, stream) ==
    IF stream = <<>> THEN response_text
    ELSE consume(response_text \o Head(stream).text, Tail(stream))

\* a return that records the answer without looking whether it is empty
get_response_return_always(stream, ok) ==
    LET response_text == consume(<<>>, stream)
    IN  /\ pc = "stream"
        /\ conversation_history' =
               add_message(conversation_history, "model", response_text)
        /\ logs' = [logs EXCEPT ![chat_log_file] =
                        save_to_log(@, "model", response_text, ok)]
        /\ appended' = add_message(appended, "model", response_text)
        /\ ret' = response_text
        /\ exc' = <<>>
        /\ pc' = "input"
        /\ out' = NoReport
        /\ request' = <<>>
        /\ UNCHANGED <<current_prompt, chat_log_file, config, last_prompt,
                       hydrated, dropped, pre_clear, ncalls>>

\* a return that writes the answer's record to the default persona's log
get_response_return_default_log(stream, ok) ==
    LET response_text == consume(<<>>, stream)
    IN  /\ pc = "stream"
        /\ IF response_text # <<>>
           THEN /\ conversation_history' =
                       add_message(conversation_history, "model", response_text)
                /\ logs' = [logs EXCEPT ![LogPath(DEFAULT_PROMPT)] =
                                save_to_log(@, "model", response_text, ok)]
                /\ appended' = add_message(appended, "model", response_text)
           ELSE UNCHANGED <<conversation_history, logs, appended>>
        /\ ret' = response_text
        /\ exc' = <<>>
        /\ pc' = "input"
        /\ out' = NoReport
        /\ request' = <<>>
        /\ UNCHANGED <<current_prompt, chat_log_file, config, last_prompt,
                       hydrated, dropped, pre_clear, ncalls>>

\* the stream ends: the rest of the try block
get_response_return(stream, ok) ==
    LET response_text == consume(<<>>, stream)
    IN  /\ pc = "stream"
        /\ IF response_text # <<>>
           THEN /\ conversation_history' =
                       add_message(conversation_history, "model", response_text)
                /\ logs' = [logs EXCEPT ![chat_log_file] =
                                save_to_log(@, "model", response_text, ok)]
                /\ appended' = add_message(appended, "model", response_text)
           ELSE UNCHANGED <<conversation_history, logs, appended>>
        /\ ret' = response_text
        /\ exc' = <<>>
        /\ pc' = "input"
        /\ out' = NoReport
        /\ request' = <<>>
        /\ UNCHANGED <<current_prompt, chat_log_file, config, last_prompt,
                       hydrated, dropped, pre_clear, ncalls>>

run_return == \E stream \in Streams, ok \in BOOLEAN : get_response_return(stream, ok)

\* an except arm that records its message as the assistant's turn
get_response_except_records(e) ==
    /\ pc = "stream"
    /\ conversation_history' =
           add_message(conversation_history, "model", error_msg(e))
    /\ appended' = add_message(appended, "model", error_msg(e))
    /\ ret' = error_msg(e)
    /\ exc' = e
    /\ pc' = "input"
    /\ out' = NoReport
    /\ request' = <<>>
    /\ UNCHANGED <<current_prompt, chat_log_file, config, files, hydrated,
                   dropped, pre_clear, ncalls>>

\* the request or the stream raises an Exception with description e
get_response_except(e) ==
    /\ pc = "stream"
    /\ ret' = error_msg(e)
    /\ exc' = e
    /\ pc' = "input"
    /\ out' = NoReport
    /\ request' = <<>>
    /\ UNCHANGED <<bot, files, ghost, pre_clear, ncalls>>

run_except == \E e \in FailDescs : get_response_except(e)

\* an interrupt that records the text streamed so far before the loop ends
run_interrupted_call_salvages ==
    /\ pc = "stream"
    /\ \E ok \in BOOLEAN :
           last_prompt' = save_last_prompt(last_prompt, current_prompt, ok)
    /\ conversation_history' = add_message(conversation_history, "model", <<"a">>)
    /\ appended' = add_message(appended, "model", <<"a">>)
    /\ pc' = "exited"
    /\ out' = NoReport
    /\ UNCHANGED <<current_prompt, chat_log_file, config, logs, hydrated,
                   dropped, request, ret, exc, pre_clear, ncalls>>

\* ctrl-C while the request is in flight: passes get_response's
\* 'except Exception' and reaches run's 'except KeyboardInterrupt'
run_interrupted_call ==
    /\ pc = "stream"
    /\ \E ok \in BOOLEAN :
           last_prompt' = save_last_prompt(last_prompt, current_prompt, ok)
    /\ pc' = "exited"
    /\ out' = NoReport
    /\ UNCHANGED <<bot, logs, ghost, request, ret, exc, pre_clear, ncalls>>

Next ==
    \/ main
    \/ run_quit
    \/ run_clear
    \/ run_prompt
    \/ run_prompt_list
    \/ run_interrupted
    \/ run_text
    \/ run_return
    \/ run_except
    \/ run_interrupted_call

Spec == Init /\ [][Next]_vars

(* ------------- the except arm over every description ------------------- *)
\* words a failure description is made of
Words == {"API_KEY", "api_key", "quota", "QUOTA", "rate", "Rate", "x"}
\* words in one description
MaxDescLen == 2
Descriptions == UNION {[1..n -> Words] : n \in 1..MaxDescLen}

classify_except == \E e \in Descriptions : get_response_except(e)

NextClassify == run_text \/ classify_except

SpecClassify == Init /\ [][NextClassify]_vars

(* ------------- _load_chat_history over every short log ----------------- *)
\* tokens in one log
MaxLogLen == 4
LogTokens == {USER_MARK, AI_MARK, TIME_LINE, " ", "\n", "a"}
LogTexts == UNION {[1..n -> LogTokens] : n \in 0..MaxLogLen}

\* ChatBot.__init__ and show_welcome where no selection was saved, the
\* default persona's log holds any short text and the other log is absent
InitReconcile ==
    /\ last_prompt = Absent
    /\ \E d \in LogTexts :
           logs = [q \in LogPaths |->
                      IF q = LogPath(DEFAULT_PROMPT) THEN File(d) ELSE Absent]
    /\ current_prompt = load_last_prompt(last_prompt)
    /\ chat_log_file = LogPath(current_prompt)
    /\ conversation_history = load_chat_history(<<>>, logs[chat_log_file])
    /\ config = GenerateContentConfig(current_prompt)
    /\ pc = "input"
    /\ request = <<>>
    /\ ret = <<>>
    /\ exc = <<>>
    /\ out = Report("welcome", current_prompt, {})
    /\ pre_clear = <<>>
    /\ hydrated = load_chat_history(<<>>, logs[chat_log_file])
    /\ appended = <<>>
    /\ dropped = 0
    /\ ncalls = 0

NextReconcile == run_prompt

SpecReconcile == InitReconcile /\ [][NextReconcile]_vars

(* ------------------------------ helpers -------------------------------- *)
IsPrefix(s, t) == Len(s) <= Len(t) /\ SubSeq(t, 1, Len(s)) = s

ActiveLog == logs[chat_log_file]

\* the text appendTurn writes, turn after turn, to an empty log
RECURSIVE LogOf(_)
LogOf(turns) ==
    IF turns = <<>> THEN <<>>
    ELSE log_entry(Head(turns).role, Head(turns).text) \o LogOf(Tail(turns))

ErrorKinds == {ERR_AUTH, ERR_QUOTA, ERR_RATE, ERR_REQUEST}
IsError(v) == v # <<>> /\ Head(v) \in ErrorKinds

\* the steps of the claims
CallStep == pc = "input" /\ pc' = "stream"
FailStep == pc = "stream" /\ pc' = "input" /\ exc' # <<>>
DoneStep == pc = "stream" /\ pc' = "input" /\ exc' = <<>>
ClearStep == pc = "input" /\ out'.msg = "cleared" /\ pre_clear' = conversation_history
RejectStep == pc = "input" /\ out'.msg = "rejected"
SwitchStep(name) == pc = "input" /\ out'.msg = "switched" /\ out'.name = name

(* ------------------------------- C1 ------------------------------------ *)
\* C1: when the active log holds exactly what the turns appended since the
\* last load wrote to an empty log, loading that log yields those turns:
\* as many, in the same order, with the same role and text.
C1_RoundTrip ==
    (ActiveLog.st = "ok" /\ ActiveLog.data = LogOf(appended))
        => load_chat_history(<<>>, ActiveLog) = appended

(* ------------------------------- C2 ------------------------------------ *)
\* C2: switch_prompt with a name that is no key of the registry leaves the
\* active persona, the turn list, the config, the log path, the selection
\* file and every log as they were; it reports the name and lists every
\* registered persona.
C2_RejectedSwitch ==
    [][RejectStep =>
          /\ UNCHANGED <<current_prompt, conversation_history, config,
                         chat_log_file, last_prompt, logs>>
          /\ out'.name \notin PromptNames
          /\ out'.listed = PromptNames]_vars

\* a switch was rejected while turns were in memory
C2_Witness ==
    out.msg = "rejected" /\ conversation_history # <<>> /\ ActiveLog.st = "ok"

(* ------------------------------- C3 ------------------------------------ *)
HasWord(e, ws) == \E i \in 1..Len(e) : e[i] \in ws
SaysQuota(e) == HasWord(e, {"quota", "QUOTA"})
SaysRate(e) == HasWord(e, {"rate", "Rate"})
SaysKey(e) == HasWord(e, {"API_KEY"})

\* C3 as claimed: quota first, then rate, then API_KEY when neither is there,
\* else the transport error.
C3_QuotaFirst ==
    exc # <<>> =>
        Head(ret) = IF SaysQuota(exc) THEN ERR_QUOTA
                    ELSE IF SaysRate(exc) THEN ERR_RATE
                    ELSE IF SaysKey(exc) THEN ERR_AUTH
                    ELSE ERR_REQUEST

\* C3, amended: a description with "API_KEY" (in capitals) is an AuthError
\* whatever else it holds; without it, one with "quota" in any case is
\* QuotaExceeded; without either, one with "rate" in any case is
\* RateLimited; every other one is a TransportError.
C3_KeyFirst ==
    exc # <<>> =>
        Head(ret) = IF SaysKey(exc) THEN ERR_AUTH
                    ELSE IF SaysQuota(exc) THEN ERR_QUOTA
                    ELSE IF SaysRate(exc) THEN ERR_RATE
                    ELSE ERR_REQUEST

\* a description with API_KEY and quota was classified
C3_Witness == SaysKey(exc) /\ SaysQuota(exc) /\ ret = <<ERR_AUTH>>

(* ------------------------------- C4 ------------------------------------ *)
Logged(role, t) ==
    [logs EXCEPT ![chat_log_file] = File(@.data \o log_entry(role, t))]

IsSuffix(s, t) ==
    Len(s) <= Len(t) /\ SubSeq(t, Len(t) - Len(s) + 1, Len(t)) = s

\* what the call and the failure do; lossy: the log write may fail
FailedCall(lossy) ==
    /\ CallStep =>
          /\ \E t \in {strip(l) : l \in Lines} :
                 /\ t # <<>>
                 /\ conversation_history' = Append(conversation_history, Content("user", t))
                 /\ logs' \in {Logged("user", t)} \cup (IF lossy THEN {logs} ELSE {})
          /\ UNCHANGED <<current_prompt, chat_log_file, config, last_prompt>>
    /\ FailStep =>
          /\ UNCHANGED <<bot, files>>
          /\ IsError(ret')

\* C4 as claimed: after a call whose request failed, the user's turn is at
\* the tail of the list, the user's record is at the end of the active log
\* and the error message is the value returned.
C4_AlwaysLogged ==
    (exc # <<>> /\ pc = "input") =>
        /\ IsError(ret)
        /\ conversation_history # <<>>
        /\ LET turn == conversation_history[Len(conversation_history)]
           IN  /\ turn.role = "user"
               /\ ActiveLog.st = "ok"
               /\ IsSuffix(log_entry("user", turn.text), ActiveLog.data)

\* C4, amended: a call whose request fails adds the user's turn to the tail
\* of the list and, unless the log write fails, the user's record to the
\* end of the active log (a failed write leaves the log as it was); the
\* failure adds no turn and no record, its message is the value returned,
\* and the loop is back at its prompt.
C4_FailedCall == [][FailedCall(TRUE)]_vars

\* a request failed after the user's record reached the log
C4_Witness ==
    /\ exc # <<>> /\ pc = "input" /\ IsError(ret)
    /\ conversation_history # <<>>
    /\ conversation_history[Len(conversation_history)].role = "user"
    /\ ActiveLog.st = "ok"
    /\ \E t \in {strip(l) : l \in Lines} :
           t # <<>> /\ \E pre \in {<<>>, HandEdited.data} :
               ActiveLog.data = pre \o log_entry("user", t)

(* ------------------------------- C5 ------------------------------------ *)
\* what the end of the stream does; lossy: the log write may fail;
\* empty_is_error: an empty answer is returned as an error value
CompletedCall(lossy, empty_is_error) ==
    DoneStep =>
        \/ /\ ret' # <<>>
           /\ ~IsError(ret')
           /\ conversation_history' =
                  Append(conversation_history, Content("model", ret'))
           /\ logs' \in {Logged("model", ret')} \cup (IF lossy THEN {logs} ELSE {})
        \/ /\ IF empty_is_error THEN IsError(ret') ELSE ret' = <<>>
           /\ UNCHANGED <<conversation_history, logs>>

\* C5 as claimed: a non-empty answer is appended to the list and to the log
\* and returned; an empty one adds nothing and an error value is returned.
C5_EmptyIsError == [][CompletedCall(FALSE, TRUE)]_vars

\* C5, amended: when the stream completes, a non-empty answer is appended
\* as one model turn to the list and, unless the log write fails, to the
\* log, and is returned; an empty answer adds no turn and no record and the
\* value returned is that empty text, not an error value.
C5_CompletedCall == [][CompletedCall(TRUE, FALSE)]_vars

\* a stream of reasoning only completed: nothing was answered
C5_Witness ==
    /\ pc = "input" /\ ncalls > 0 /\ exc = <<>> /\ ret = <<>>
    /\ out = NoReport
    /\ appended # <<>>
    /\ appended[Len(appended)].role = "user"

(* ------------------------------- C6 ------------------------------------ *)
\* what clear does, and a switch to the active persona right after it
ClearThenSwitch(restored) ==
    /\ ClearStep =>
          /\ conversation_history' = <<>>
          /\ UNCHANGED <<current_prompt, chat_log_file, config, logs>>
    /\ (out.msg = "cleared" /\ SwitchStep(current_prompt)) =>
          conversation_history' = restored

\* C6 as claimed: the switch brings back the turns that were in memory just
\* before the clear.
C6_RestoresMemory == [][ClearThenSwitch(pre_clear)]_vars

\* C6, amended: clear empties the list and leaves the active persona and
\* its log as they were; a following switch to the active persona makes
\* the list the turns read from that persona's log (none when the log
\* cannot be read), which are the pre-clear turns only where the list and
\* the log agreed before the clear.
C6_RestoresLog ==
    [][ClearThenSwitch(load_chat_history(<<>>, ActiveLog))]_vars

\* turns were cleared from memory while the log still yields turns
C6_Witness ==
    /\ out.msg = "cleared" /\ pre_clear # <<>> /\ conversation_history = <<>>
    /\ load_chat_history(<<>>, ActiveLog) # <<>>

(* ------------------------------- C7 ------------------------------------ *)
\* C7: a switch to the persona a switch has just made active, with nothing
\* in between, leaves the turn list as the first switch made it.
C7_SwitchTwice ==
    [][(out.msg = "switched" /\ out.name = current_prompt
            /\ SwitchStep(current_prompt))
          => conversation_history' = conversation_history]_vars

\* a switch has loaded turns from a log
C7_Witness ==
    /\ out.msg = "switched" /\ out.name = current_prompt /\ pc = "input"
    /\ conversation_history # <<>>

Holds(f, n) == f.st = "ok" /\ f.data \in {<<n>>, <<n, "\n">>}

\* C9: the program writes the selection file only with the active persona's
\* name, a key of the registry, so a file that started absent or with a
\* registered name stays so; and a start activates the name the file holds,
\* or the default persona when the file is absent, unreadable or holds no
\* registered name.
C9_Selection ==
    /\ [][last_prompt' # last_prompt =>
              /\ current_prompt' \in PromptNames
              /\ last_prompt' = File(<<current_prompt'>>)]_vars
    /\ [](\/ last_prompt \in {f.sel : f \in InitialFiles}
          \/ \E n \in PromptNames : last_prompt = File(<<n>>))
    /\ [](out.msg = "welcome" =>
              /\ current_prompt \in PromptNames
              /\ \A n \in PromptNames : Holds(last_prompt, n) => current_prompt = n
              /\ (\A n \in PromptNames : ~Holds(last_prompt, n))
                     => current_prompt = DEFAULT_PROMPT)

\* a start found the selection a switch to the non-default persona wrote
C9_Witness ==
    /\ out.msg = "welcome"
    /\ last_prompt = File(<<"p2">>) /\ current_prompt = "p2"

(* ------------------------------- C10 ----------------------------------- *)
\* C10: every step leaves every log with what it had as a prefix of what it
\* has; a log that exists stays, an unreadable one is not replaced.
C10_AppendOnly ==
    [][\A q \in LogPaths :
          /\ IsPrefix(logs[q].data, logs'[q].data)
          /\ logs[q].st = "ok" => logs'[q].st = "ok"
          /\ logs[q].st = "unreadable" => logs'[q] = logs[q]]_vars

\* a log found at start has a record after what it had
C10_Witness ==
    \E q \in LogPaths :
        /\ logs[q].st = "ok"
        /\ IsPrefix(HandEdited.data, logs[q].data)
        /\ Len(logs[q].data) > Len(HandEdited.data)

(* ------------------------------- C11 ----------------------------------- *)
ExitStep == pc # "exited" /\ pc' = "exited"
StartStep == pc = "exited" /\ pc' = "input"

\* C11: an accepted switch and every way out of the loop (quit, interrupt
\* or end of input at the prompt, interrupt during a request) write the
\* selection file with the active persona's name: the file then holds that
\* name, or is as it was when the write failed; each way out can write it;
\* and a start that finds the name the ended process wrote activates the
\* persona that was active when it ended.
C11_SavedOnExit ==
    /\ [][/\ \A n \in PromptNames :
                SwitchStep(n) => last_prompt' \in {File(<<n>>), last_prompt}
          /\ ExitStep =>
                /\ UNCHANGED current_prompt
                /\ last_prompt' \in {File(<<current_prompt>>), last_prompt}
          /\ (StartStep /\ last_prompt = File(<<current_prompt>>)) =>
                current_prompt' = current_prompt]_vars
    /\ [](pc = "input" =>
              /\ ENABLED (run_quit /\ last_prompt' = File(<<current_prompt>>))
              /\ ENABLED (run_interrupted /\ last_prompt' = File(<<current_prompt>>)))
    /\ [](pc = "stream" =>
              ENABLED (run_interrupted_call /\ last_prompt' = File(<<current_prompt>>)))

\* the process ended with the non-default persona active and its name saved
C11_Witness ==
    /\ pc = "exited" /\ current_prompt # DEFAULT_PROMPT
    /\ last_prompt = File(<<current_prompt>>)

(* ------------------------------- C12 ----------------------------------- *)
\* the turns of the lines, where a turn's text is the rest of its line after
\* the leading marker, trimmed
RECURSIVE RemainderTurns(_)
RemainderTurns(lines) ==
    IF lines = <<>> THEN <<>>
    ELSE LET line == Head(lines)
             text == IF line = <<>> THEN <<>> ELSE strip(Tail(line))
             turn ==
                 IF startswith(line, USER_MARK) /\ text # <<>>
                 THEN <<Content("user", text)>>
                 ELSE IF startswith(line, AI_MARK) /\ text # <<>>
                 THEN <<Content("model", text)>>
                 ELSE <<>>
         IN  turn \o RemainderTurns(Tail(lines))

\* C12: the turns loaded from a log are, in line order, one turn for every
\* line that begins with a marker and has text after it; the turn's text is
\* the rest of the line after the leading marker, trimmed, so a marker
\* further along the line stays in the text.
C12_RemainderOfLine ==
    ActiveLog.st = "ok" =>
        conversation_history = RemainderTurns(split(ActiveLog.data))

(* ------------------------------- C13 ----------------------------------- *)
\* a timestamp line, a blank line or a marker with no text after it
Noise(line) ==
    \/ line = <<TIME_LINE>>
    \/ strip(line) = <<>>
    \/ Head(line) \in {USER_MARK, AI_MARK} /\ strip(Tail(line)) = <<>>

\* C13: no turn loaded from a log has an empty text, and a log that is
\* absent, empty or made of timestamp lines, blank lines and markers with
\* no text loads as no turns.
C13_NoEmptyTurn ==
    /\ \A i \in 1..Len(conversation_history) :
           conversation_history[i].text # <<>>
    /\ (\/ ActiveLog.st = "absent"
        \/ /\ ActiveLog.st = "ok"
           /\ \A i \in 1..Len(split(ActiveLog.data)) :
                  Noise(split(ActiveLog.data)[i]))
          => conversation_history = <<>>

\* a switch loaded a log of a user marker with no text and a timestamp line
C13_Witness ==
    /\ out.msg = "switched"
    /\ ActiveLog = File(<<USER_MARK, " ", "\n", TIME_LINE>>)
    /\ conversation_history = <<>>

(* ------------------------------- C14 ----------------------------------- *)
\* what an accepted switch to n leaves; strict: the selection file always
\* holds n afterwards
Switched(strict) ==
    \A n \in PromptNames :
        SwitchStep(n) =>
            /\ current_prompt' = n
            /\ last_prompt' \in {File(<<n>>)} \cup (IF strict THEN {} ELSE {last_prompt})
            /\ config'.system_instruction = SYSTEM_PROMPTS[n]
            /\ logs' = logs
            /\ conversation_history' = load_chat_history(<<>>, logs[LogPath(n)])

\* C14 as claimed: after an accepted switch to n the active persona is n,
\* the selection file holds n, the config carries n's instruction and the
\* list is what n's log loads as.
C14_SelectionHolds == [][Switched(TRUE)]_vars

\* C14, amended: after an accepted switch to n the active persona is n, the
\* selection file holds n unless its write failed (then it is as it was),
\* the config carries n's instruction and the list is what n's log alone
\* loads as, whatever was in the list before.
C14_Switched == [][Switched(FALSE)]_vars

\* a switch left the selection file without the new name and the list
\* empty while another persona's log yields turns
C14_Witness ==
    /\ out.msg = "switched" /\ pc = "input"
    /\ last_prompt # File(<<current_prompt>>)
    /\ conversation_history = <<>>
    /\ \E q \in LogPaths : load_chat_history(<<>>, logs[q]) # <<>>

(* ------------------------------- C15 ----------------------------------- *)
\* C15: a log write that fails changes nothing else: when a call leaves the
\* logs as they were, the user's turn is still added to the tail of the
\* list, the request is made with the list that holds it and the loop goes
\* on to the stream; when a completed answer leaves the logs as they were,
\* the model's turn is still added and the loop is back at its prompt; and
\* a call whose write fails can always be made.
C15_WriteFailure ==
    /\ [][/\ (CallStep /\ logs' = logs) =>
                /\ \E t \in {strip(l) : l \in Lines} :
                       /\ t # <<>>
                       /\ conversation_history' =
                              Append(conversation_history, Content("user", t))
                /\ request' = conversation_history'
                /\ UNCHANGED <<current_prompt, chat_log_file, config, last_prompt>>
          /\ (DoneStep /\ ret' # <<>> /\ logs' = logs) =>
                conversation_history' =
                    Append(conversation_history, Content("model", ret'))]_vars
    /\ []((pc = "input" /\ ncalls < MaxCalls) =>
              ENABLED (run_text /\ logs' = logs /\ pc' = "stream"))
    /\ [](pc = "stream" =>
              ENABLED (run_return /\ logs' = logs /\ ret' # <<>> /\ pc' = "input"))

\* a request is in flight with the user's turn while the log, absent before
\* the call, is still absent: the write of the record failed
C15_Witness ==
    /\ pc = "stream" /\ ActiveLog.st = "absent"
    /\ request # <<>> /\ request = conversation_history
    /\ request[Len(request)].role = "user"

(* ------------------------------- C16 ----------------------------------- *)
\* what a call does before the request; strict: the record always reaches
\* the log
Submit(strict) ==
    CallStep =>
        /\ \E t \in {strip(l) : l \in Lines} :
               /\ t # <<>>
               /\ conversation_history' =
                      Append(conversation_history, Content("user", t))
               /\ logs' \in {Logged("user", t)} \cup (IF strict THEN {} ELSE {logs})
        /\ request' = conversation_history'
        /\ Len(request') = Len(hydrated') + Len(appended') - dropped'

\* C16 as claimed: every call adds the user's turn to the list and the
\* user's record to the active log, and the request carries the whole list
\* of that moment, the user's turn last, without the turns cleared before.
C16_AlwaysRecorded == [][Submit(TRUE)]_vars

\* C16, amended: every call adds the user's turn to the list and, unless
\* the write fails, the user's record to the active log; the request
\* carries the whole list of that moment, the user's turn last, without
\* the turns cleared before.
C16_Submit == [][Submit(FALSE)]_vars

\* after a clear of loaded turns, a request carries the user's turn alone
\* and the record is at the end of the log
C16_Witness ==
    /\ pc = "stream" /\ dropped > 0 /\ hydrated # <<>>
    /\ Len(request) = 1
    /\ ActiveLog.st = "ok"
    /\ IsSuffix(log_entry("user", request[1].text), ActiveLog.data)

(* ------------------------------- C17 ----------------------------------- *)
\* C17: clear makes the list empty and leaves the active persona, the
\* config, the log path, the selection file and every log as they were.
C17_ClearFrame ==
    [][ClearStep =>
          /\ conversation_history' = <<>>
          /\ UNCHANGED <<current_prompt, config, chat_log_file, last_prompt,
                         logs>>]_vars

\* turns were cleared under the non-default persona, whose log and
\* selection file hold content
C17_Witness ==
    /\ out.msg = "cleared" /\ pre_clear # <<>>
    /\ current_prompt # DEFAULT_PROMPT
    /\ ActiveLog.st = "ok" /\ last_prompt.st = "ok"

(* ------------------------------- C18 ----------------------------------- *)
\* C18: in every state the active persona is a key of the registry, the
\* log path is the one derived from its name and the config carries its
\* instruction.
C18_InStep ==
    /\ current_prompt \in DOMAIN SYSTEM_PROMPTS
    /\ chat_log_file = LogPath(current_prompt)
    /\ config.system_instruction = SYSTEM_PROMPTS[current_prompt]

\* after a switch whose selection write failed and a clear, a request is in
\* flight under the persona the switch made active
C18_Witness ==
    /\ pc = "stream"
    /\ current_prompt # load_last_prompt(last_prompt)
    /\ dropped > 0

(* ------------------------------- C19 ----------------------------------- *)
\* C19: a step changes no log but the active persona's, and the list a
\* switch loads is read from the new persona's log alone.
C19_Isolation ==
    [][/\ \A q \in LogPaths :
              logs'[q] # logs[q] => (q = chat_log_file /\ q = LogPath(current_prompt))
       /\ \A n \in PromptNames :
              SwitchStep(n) =>
                  conversation_history' = load_chat_history(<<>>, logs'[LogPath(n)])]_vars

\* under the non-default persona an answer was recorded in its log while
\* the default persona's log is as it was found
C19_Witness ==
    /\ current_prompt # DEFAULT_PROMPT
    /\ logs[LogPath(DEFAULT_PROMPT)] = HandEdited
    /\ ActiveLog.st = "ok"
    /\ ret # <<>> /\ ~IsError(ret)
    /\ IsSuffix(log_entry("model", ret), ActiveLog.data)

(* ------------------------------- C20 ----------------------------------- *)
InterruptStep == pc = "stream" /\ pc' = "exited"

\* what an interrupt during a request leaves; strict: the user's record is
\* in the log and the selection file holds the active name
Interrupted(strict) ==
    InterruptStep =>
        /\ UNCHANGED <<bot, logs>>
        /\ conversation_history # <<>>
        /\ conversation_history = request
        /\ LET turn == conversation_history[Len(conversation_history)]
           IN  /\ turn.role = "user"
               /\ strict =>
                      /\ ActiveLog.st = "ok"
                      /\ IsSuffix(log_entry("user", turn.text), ActiveLog.data)
        /\ ret' = <<>> /\ exc' = <<>>
        /\ last_prompt' \in {File(<<current_prompt>>)}
                                \cup (IF strict THEN {} ELSE {last_prompt})

\* C20 as claimed: an interrupt during a request leaves the user's turn in
\* the list and the user's record in the log, adds no model turn to either,
\* returns no error value and ends the loop with the selection file
\* holding the active name.
C20_RecordedAndSaved == [][Interrupted(TRUE)]_vars

\* C20, amended: an interrupt during a request leaves the list and the logs
\* as the call left them (the user's turn last in the list, the user's
\* record in the log unless its write had failed), adds no model turn to
\* either, returns no error value and ends the loop after writing the
\* selection file with the active name (the file is as it was when that
\* write fails).
C20_Interrupted == [][Interrupted(FALSE)]_vars

\* the loop ended on an interrupt during a request, with the user's record
\* the last thing in the log
C20_Witness ==
    /\ pc = "exited" /\ request # <<>> /\ request = conversation_history
    /\ ret = <<>> /\ exc = <<>>
    /\ ActiveLog.st = "ok"
    /\ IsSuffix(log_entry("user", request[Len(request)].text), ActiveLog.data)

====
